---- MODULE Spec2Model ----
(***************************************************************************)
(* A model of process_media.py: the media-library run of Processor         *)
(* (discovery, deduplication, the resolution ladder, the encode step with  *)
(* its progress context, the relocation of the results), the progress      *)
(* gauge handler of show_progress, the line reader _do_watch_progress, one *)
(* encode job with its monitor greenlet, and _get_audio_track.             *)
(*                                                                         *)
(* A file name is a record [ext, marker]: "Movie (2020) - 1080p.mp4" is    *)
(* [ext |-> "mp4", marker |-> 1080], and an original such as               *)
(* "Movie (2020).mkv" is [ext |-> "mkv", marker |-> 0].  A path is a       *)
(* record [loc, dir, name]: loc "in" is the input directory dir, any other *)
(* loc is the bucket <output_path>/<loc>/<folder of dir>.  The filesystem  *)
(* is a function from the existing paths to the content they hold.         *)
(***************************************************************************)
EXTENDS Integers, Sequences, FiniteSets, TLC

\* ----------------------------------------------------------------- bounds
\* Number of input directories of a run.
NumDirs == 2
\* Number of files in the input tree when the run starts.
MaxFiles == 2
\* Longest directory listing handed to _find_highest_res on its own.
MaxSiblings == 3
\* Number of progress events delivered to one gauge.
MaxEvents == 3
\* Largest out_time_ms value, in units of 500.
MaxTicks == 4
\* Longest byte stream written to the progress socket.
MaxStream == 5
\* Number of progress records the encoder of one job writes.
MaxRecords == 2
\* Number of audio streams of a file, and largest stream index of a file.
MaxAudio == 2
MaxIndex == 3

\* ------------------------------------------------------- program constants
\* Processor.video_resolutions, in dictionary (insertion) order.
video_resolutions ==
    << [width |-> 3840, height |-> 2160],
       [width |-> 1920, height |-> 1080],
       [width |-> 1280, height |-> 720],
       [width |-> 720, height |-> 480] >>

Heights == {video_resolutions[i].height : i \in 1..Len(video_resolutions)}

Dirs == 1..NumDirs

\* ------------------------------------------------------------- file names
Unmarked(ext) == [ext |-> ext, marker |-> 0]

Marked(h) == [ext |-> "mp4", marker |-> h]

NoFile == [ext |-> "none", marker |-> 0]

\* file_name.endswith("p.mp4")
EndsWithPMp4(name) == name.ext = "mp4" /\ name.marker > 0

RECURSIVE NumDigits(_)
NumDigits(n) == IF n < 10 THEN 1 ELSE 1 + NumDigits(n \div 10)

RECURSIVE Pow10(_)
Pow10(k) == IF k = 0 THEN 1 ELSE 10 * Pow10(k - 1)

\* file_name.endswith(f"{res}p.mp4"): the decimal text of res ends the digits
\* that precede "p.mp4".
EndsWithRes(name, res) ==
    EndsWithPMp4(name) /\ name.marker % Pow10(NumDigits(res)) = res

\* int(re.search(r"(\d+)p.mp4", file_name).group(1))
ResOf(name) == name.marker

\* -------------------------------------------------------- _find_highest_res
\* The first loop: stops at the first name without the suffix (the break).
RECURSIVE ScanHighest(_, _, _)
ScanHighest(listing, i, highest_res) ==
    IF i > Len(listing)
    THEN [highest_res |-> highest_res, master_file |-> NoFile]
    ELSE IF ~EndsWithPMp4(listing[i])
         THEN [highest_res |-> highest_res, master_file |-> listing[i]]
         ELSE ScanHighest(listing, i + 1,
                          IF ResOf(listing[i]) > highest_res
                          THEN ResOf(listing[i]) ELSE highest_res)

\* The second loop: the first name of the listing that ends with the highest
\* resolution seen.
FirstEndingWith(listing, res, fallback) ==
    LET hits == {i \in 1..Len(listing) : EndsWithRes(listing[i], res)}
    IN  IF hits = {} THEN fallback
        ELSE listing[CHOOSE i \in hits : \A j \in hits : i <= j]

_find_highest_res(listing) ==
    LET scan == ScanHighest(listing, 1, 0)
    IN  IF scan.highest_res > 0
        THEN FirstEndingWith(listing, scan.highest_res, scan.master_file)
        ELSE scan.master_file

\* -------------------------------------------------------------- _probe_file
\* The width loop of _probe_file: the first rung whose width the stream
\* exceeds by more than -10, or -1.
RECURSIVE WidthToResolution(_, _)
WidthToResolution(width, i) ==
    IF i > Len(video_resolutions) THEN -1
    ELSE IF width > video_resolutions[i].width - 10
         THEN video_resolutions[i].height
         ELSE WidthToResolution(width, i + 1)

\* A probe answer: no video stream, or the width of the first video stream.
ProbeAnswers ==
    {[video |-> FALSE, width |-> 0]}
    \cup {[video |-> TRUE, width |-> w] : w \in {700, 715, 1280, 1920, 3840}}

_probe_file(answer) ==
    IF ~answer.video THEN -1 ELSE WidthToResolution(answer.width, 1)

\* ---------------------------------------------------------------- the ladder
\* Mutants of line 298: the SD rung skipped for every source, and for none.
SkipSDAlways(target_resolution, original_resolution) ==
    target_resolution = 480

SkipSDNever(target_resolution, original_resolution) == FALSE

\* line 298: the SD rung is skipped for a source above 480.
SkipSD(target_resolution, original_resolution) ==
    target_resolution = 480 /\ original_resolution > 480

\* Mutant of line 301: the comparison with the current resolution is lost.
RungAppliesAlways(current_resolution, target_resolution) == TRUE

\* line 301: the rung is handed to _process_resolution.
RungApplies(current_resolution, target_resolution) ==
    current_resolution >= target_resolution

\* Mutant of line 404: no file counts as carrying its resolution's marker.
IsProcessedNever(source_file, current_resolution) == FALSE

\* line 404: source_file.endswith(f" - {current_resolution}p.mp4")
IsProcessed(source_file, current_resolution) ==
    source_file.ext = "mp4" /\ source_file.marker = current_resolution

\* Mutant of line 426: the early return is lost.
SkipRungNever(source_file, current_resolution, target_resolution) == FALSE

\* line 426: the rung is a no-op.
SkipRung(source_file, current_resolution, target_resolution) ==
    IsProcessed(source_file, current_resolution)
    /\ current_resolution = target_resolution

\* Mutant of lines 433-436: every source is filed in the main bucket.
LibraryNameMain(current_resolution) == "main"

\* line 431: the bucket of an already processed source.
LibraryName(current_resolution) ==
    IF current_resolution = 2160 THEN "2160p" ELSE "main"

\* ------------------------------------------------------------ the filesystem
InPath(d, name) == [loc |-> "in", dir |-> d, name |-> name]

OutPath(bucket, d, name) == [loc |-> bucket, dir |-> d, name |-> name]

WriteFile(fs, p, content) ==
    [q \in (DOMAIN fs) \cup {p} |-> IF q = p THEN content ELSE fs[q]]

RemovePaths(fs, ps) == [q \in (DOMAIN fs) \ ps |-> fs[q]]

\* d is base or a directory below base.
RECURSIVE IsUnder(_, _, _)
IsUnder(par, d, base) ==
    IF d = base THEN TRUE
    ELSE IF d = 0 THEN FALSE
    ELSE IsUnder(par, par[d], base)

\* eval(statement) for the statements _run is given.
Eval(stmt, fs, par) ==
    CASE stmt.op = "remove" -> RemovePaths(fs, {stmt.src})
      [] stmt.op = "move" ->
            IF stmt.src \in DOMAIN fs
            THEN RemovePaths(WriteFile(fs, stmt.dst, fs[stmt.src]), {stmt.src})
            ELSE fs
      [] stmt.op = "copyfile" ->
            IF stmt.src \in DOMAIN fs
            THEN WriteFile(fs, stmt.dst, fs[stmt.src])
            ELSE fs
      [] stmt.op = "rmtree" ->
            RemovePaths(fs, {q \in DOMAIN fs :
                               q.loc = "in" /\ IsUnder(par, q.dir, stmt.src.dir)})
      [] OTHER -> fs

\* Processor._run: the statement is evaluated unless the run is a dry run.
_run(stmt, fs, par, dry) == IF dry THEN fs ELSE Eval(stmt, fs, par)

RECURSIVE RunAll(_, _, _, _)
RunAll(stmts, fs, par, dry) ==
    IF stmts = << >> THEN fs
    ELSE RunAll(Tail(stmts), _run(Head(stmts), fs, par, dry), par, dry)

Stmt(op, src, dst) == [op |-> op, src |-> src, dst |-> dst]


\* Mutant of _tmpdir_scope: without try/finally the directory is removed only
\* when the body returns.
TmpdirScopeExitNoFinally(n, how) == IF how = "return" THEN n - 1 ELSE n

\* _tmpdir_scope: the finally clause removes the directory however the body
\* is left ("return", "bind", "exception", "sysexit").
TmpdirScopeExit(n, how) == n - 1

\* Mutant of line 83: the socket is not wrapped in contextlib.closing.
ClosingExitLeaks(n, how) == n

\* contextlib.closing(sock): the socket is closed however the body is left.
ClosingExit(n, how) == 0

\* Mutant of line 630: the error is printed and the step goes on.
AfterEncoderErrorIgnored == "relocate"

\* line 630: sys.exit(1) ends the run.
AfterEncoderError == "exited"

\* ------------------------------------------------------------------- state
VARIABLES
    \* the run's options and input tree
    dry_run, delete, parent, initFiles,
    \* the filesystem: the files and the output directories made
    files, outdirs,
    \* the position in Processor.process
    pc, scan, files_to_process, todo, current, exit_code,
    \* the locals of _process_movie_file
    base_input, original_resolution, current_resolution, source_file, rung,
    \* the progress context of the running job
    tmpdirs, socks, encoder, ctx_exit,
    \* the history of the run: the rungs handed to _process_resolution for
    \* the file at hand, the plan first seen for each resolution, the encoder
    \* invocations, the kinds of subprocess started, the statements given to
    \* _run, and the place the encoder failed at
    plan, seenPlan, calls, spawned, issued, failure,
    \* the gauge of show_progress, the event handled last and the position
    \* before it, whether the job seeks and whether the position has been
    \* above 0
    bar_pos, bar_length, bar_label, last_key, prev_pos, nevents, seek, moved,
    \* one call of _find_highest_res
    listing, master_file,
    \* one call of _do_watch_progress: the bytes the peer writes, those not
    \* yet received, the connection, the local data and the handler's calls
    stream, unread, connection, data, handled,
    \* one job of _encode_video with its monitor task: the options, the
    \* place of the foreground, the listening socket, the greenlet child,
    \* the encoder subprocess with its return code, its connection waiting
    \* to be accepted, the records written and not yet read, and the way
    \* _encode_video ended
    job_dry_run, fake, fg, sock, child, accepted, proc, returncode, backlog,
    pipe, outcome,
    \* one call of _get_audio_track: the audio streams the prober lists,
    \* whether its output was JSON, and the pair returned
    audio_streams, parsed, language, track

runVars ==
    << dry_run, delete, parent, initFiles, files, outdirs, pc, scan,
       files_to_process, todo, current, exit_code, base_input,
       original_resolution, current_resolution, source_file, rung, tmpdirs,
       socks, encoder, ctx_exit, plan, seenPlan, calls, spawned, issued,
       failure >>

barVars ==
    << bar_pos, bar_length, bar_label, last_key, prev_pos, nevents, seek,
       moved >>

dedupVars == << listing, master_file >>

watchVars == << stream, unread, connection, data, handled >>

jobVars ==
    << job_dry_run, fake, fg, sock, child, accepted, proc, returncode,
       backlog, pipe, outcome >>

audioVars == << audio_streams, parsed, language, track >>

vars == << runVars, barVars, dedupVars, watchVars, jobVars, audioVars >>

\* What the steps of one part of the program leave alone.
notRunVars == << barVars, dedupVars, watchVars, jobVars, audioVars >>

notBarVars == << runVars, dedupVars, watchVars, jobVars, audioVars >>

notDedupVars == << runVars, barVars, watchVars, jobVars, audioVars >>

notWatchVars == << runVars, barVars, dedupVars, jobVars, audioVars >>

notAudioVars == << runVars, barVars, dedupVars, watchVars, jobVars >>

notJobVars == << runVars, barVars, dedupVars, watchVars, audioVars >>

\* The names an input directory may hold when the run starts.
InitNames == {Unmarked("mkv"), Marked(720), Marked(1080)}

\* Every directory but the first may lie inside an earlier one (0: inside the
\* processing path itself); os.walk lists a directory before those inside it.
ParentShapes == {par \in [Dirs -> 0..NumDirs] : \A d \in Dirs : par[d] < d}

TreeFiles(tree) ==
    [p \in UNION {{InPath(d, n) : n \in tree[d]} : d \in Dirs} |-> "src"]

NoPath == [loc |-> "none", dir |-> 0, name |-> NoFile]

NoFailure == [ncalls |-> 0, nissued |-> 0, current |-> 0, rung |-> 0]

Perms(S) ==
    {f \in [1..Cardinality(S) -> S] : \A i, j \in 1..Cardinality(S) :
                                          f[i] = f[j] => i = j}

\* list.remove(x): the first occurrence of x is dropped.
RemoveFirst(seq, x) ==
    LET hits == {i \in 1..Len(seq) : seq[i] = x}
    IN  IF hits = {} THEN seq
        ELSE LET k == CHOOSE i \in hits : \A j \in hits : i <= j
             IN  [i \in 1..(Len(seq) - 1) |-> IF i < k THEN seq[i] ELSE seq[i + 1]]

BarIdle ==
    /\ bar_pos = 0
    /\ bar_length = 0
    /\ bar_label = "none"
    /\ last_key = "none"
    /\ prev_pos = 0
    /\ nevents = 0
    /\ seek = FALSE
    /\ moved = FALSE

DedupIdle ==
    /\ listing = << >>
    /\ master_file = NoFile

WatchIdle ==
    /\ stream = << >>
    /\ unread = << >>
    /\ connection = "none"
    /\ data = << >>
    /\ handled = << >>

AudioIdle ==
    /\ audio_streams = << >>
    /\ parsed = FALSE
    /\ language = "none"
    /\ track = 0

JobIdle ==
    /\ job_dry_run = FALSE
    /\ fake = FALSE
    /\ fg = "none"
    /\ sock = "none"
    /\ child = "none"
    /\ accepted = FALSE
    /\ proc = "none"
    /\ returncode = -1
    /\ backlog = FALSE
    /\ pipe = << >>
    /\ outcome = "none"

\* The state of a run before its first step, but for its options and tree.
RunStart ==
    /\ files = initFiles
    /\ outdirs = {}
    /\ pc = "find"
    /\ scan = 1
    /\ files_to_process = << >>
    /\ todo = << >>
    /\ current = 0
    /\ exit_code = -1
    /\ base_input = 0
    /\ original_resolution = 0
    /\ current_resolution = 0
    /\ source_file = NoFile
    /\ rung = 0
    /\ tmpdirs = 0
    /\ socks = 0
    /\ encoder = "idle"
    /\ ctx_exit = "none"
    /\ plan = << >>
    /\ seenPlan = [h \in Heights |-> << >>]
    /\ calls = << >>
    /\ spawned = {}
    /\ issued = << >>
    /\ failure = NoFailure

\* No run: the gauge or _find_highest_res alone is looked at.
RunIdle ==
    /\ dry_run = FALSE
    /\ delete = TRUE
    /\ parent = [d \in Dirs |-> 0]
    /\ initFiles = TreeFiles([d \in Dirs |-> {}])
    /\ RunStart

\* Processor.__init__ and the state of the input tree when the run starts.
Init ==
    /\ dry_run \in BOOLEAN
    /\ delete \in BOOLEAN
    /\ parent \in ParentShapes
    /\ \E tree \in [Dirs -> SUBSET InitNames] :
          /\ Cardinality(DOMAIN TreeFiles(tree)) <= MaxFiles
          /\ initFiles = TreeFiles(tree)
    /\ RunStart
    /\ BarIdle
    /\ DedupIdle
    /\ WatchIdle
    /\ JobIdle
    /\ AudioIdle


\* ------------------------------------------------------------ the run's steps
Target == video_resolutions[rung].height

FromPath == InPath(base_input, source_file)

ToPath == InPath(base_input, Marked(Target))

\* _find_files and one round of the loop of _check_movies: the directory
\* scan, listed in any order.
CheckMovies ==
    /\ pc = "find"
    /\ scan <= NumDirs
    /\ LET names == {n \in InitNames : InPath(scan, n) \in DOMAIN initFiles}
       IN  \E ls \in Perms(names) :
             LET master == IF Len(ls) > 1 THEN _find_highest_res(ls)
                           ELSE IF Len(ls) = 1 THEN ls[1] ELSE NoFile
                 others == RemoveFirst(ls, master)
                 stmts  == IF Len(ls) > 1 /\ delete
                           THEN [i \in 1..Len(others) |->
                                   Stmt("remove", InPath(scan, others[i]), NoPath)]
                           ELSE << >>
             IN  /\ files' = RunAll(stmts, files, parent, dry_run)
                 /\ issued' = issued \o stmts
                 /\ files_to_process' =
                        IF Len(ls) = 0 THEN files_to_process
                        ELSE Append(files_to_process,
                                    [dir |-> scan, name |-> master])
    /\ scan' = scan + 1
    /\ UNCHANGED << dry_run, delete, parent, initFiles, outdirs, pc,
                    todo, current, exit_code, base_input, original_resolution,
                    current_resolution, source_file, rung, tmpdirs, socks,
                    encoder, ctx_exit, plan, seenPlan, calls, spawned, failure >>
    /\ UNCHANGED notRunVars

\* _process_files, lines 259-262: the loop runs over a copy of the queue.
ProcessFiles ==
    /\ pc = "find"
    /\ scan > NumDirs
    /\ todo' = files_to_process
    /\ current' = 0
    /\ pc' = "next"
    /\ UNCHANGED << dry_run, delete, parent, initFiles, files, outdirs, scan, files_to_process, exit_code, base_input,
                    original_resolution, current_resolution, source_file, rung,
                    tmpdirs, socks, encoder, ctx_exit, plan, seenPlan, calls,
                    spawned, issued, failure >>
    /\ UNCHANGED notRunVars

\* The loop of _process_files is exhausted: process returns, exit status 0.
Finish ==
    /\ pc = "next"
    /\ current = Len(todo)
    /\ pc' = "done"
    /\ exit_code' = 0
    /\ UNCHANGED << dry_run, delete, parent, initFiles, files, outdirs, scan, files_to_process, todo, current, base_input,
                    original_resolution, current_resolution, source_file, rung,
                    tmpdirs, socks, encoder, ctx_exit, plan, seenPlan, calls,
                    spawned, issued, failure >>
    /\ UNCHANGED notRunVars

\* _process_movie_file, lines 268-282, on a file that is gone: ffmpeg.probe
\* raises, nothing catches it.
ProbeMissing ==
    /\ pc = "next"
    /\ current < Len(todo)
    /\ InPath(todo[current + 1].dir, todo[current + 1].name) \notin DOMAIN files
    /\ current' = current + 1
    /\ spawned' = spawned \cup {"probe"}
    /\ pc' = "crashed"
    /\ exit_code' = 1
    /\ UNCHANGED << dry_run, delete, parent, initFiles, files, outdirs, scan, files_to_process, todo, base_input,
                    original_resolution, current_resolution, source_file, rung,
                    tmpdirs, socks, encoder, ctx_exit, plan, seenPlan, calls,
                    issued, failure >>
    /\ UNCHANGED notRunVars

\* Mutant of lines 281-282: a file without a resolution is not skipped.
AfterProbeNoSkip(res) == "ladder"

\* lines 281-282: _process_movie_file returns at once when the probe gave
\* no resolution.
AfterProbe(res) == IF res = -1 THEN "return" ELSE "ladder"

\* _process_movie_file, lines 268-295: the probe, the early return of a file
\* without a resolution, or the start of the ladder.
ProbeFile ==
    /\ pc = "next"
    /\ current < Len(todo)
    /\ InPath(todo[current + 1].dir, todo[current + 1].name) \in DOMAIN files
    /\ current' = current + 1
    /\ spawned' = spawned \cup {"probe"}
    /\ \E answer \in ProbeAnswers :
         LET res == _probe_file(answer)
         IN  IF res = -1
             THEN /\ original_resolution' = res
                  /\ plan' = << >>
                  /\ pc' = AfterProbe(res)
                  /\ UNCHANGED << base_input, current_resolution,
                                  source_file, rung >>
             ELSE /\ base_input' = todo[current + 1].dir
                  /\ source_file' = todo[current + 1].name
                  /\ original_resolution' = res
                  /\ current_resolution' = res
                  /\ rung' = 1
                  /\ plan' = << >>
                  /\ pc' = AfterProbe(res)
    /\ UNCHANGED << dry_run, delete, parent, initFiles, files, outdirs, scan, files_to_process, todo, exit_code, tmpdirs, socks,
                    encoder, ctx_exit, seenPlan, calls, issued, failure >>
    /\ UNCHANGED notRunVars

\* Lines 296-301: a rung the loop passes over (the SD rung of an HD source,
\* or a rung above the current resolution).
PassRung ==
    /\ pc = "ladder"
    /\ rung <= Len(video_resolutions)
    /\ SkipSD(Target, original_resolution)
       \/ ~RungApplies(current_resolution, Target)
    /\ rung' = rung + 1
    /\ UNCHANGED << dry_run, delete, parent, initFiles, files, outdirs, pc, scan, files_to_process, todo, current, exit_code,
                    base_input, original_resolution, current_resolution,
                    source_file, tmpdirs, socks, encoder, ctx_exit, plan,
                    seenPlan, calls, spawned, issued, failure >>
    /\ UNCHANGED notRunVars

\* _process_resolution, lines 404-427: the rung is a no-op.
ReuseRung ==
    /\ pc = "ladder"
    /\ rung <= Len(video_resolutions)
    /\ ~SkipSD(Target, original_resolution)
    /\ RungApplies(current_resolution, Target)
    /\ SkipRung(source_file, current_resolution, Target)
    /\ plan' = Append(plan, Target)
    /\ current_resolution' = Target
    /\ rung' = rung + 1
    /\ UNCHANGED << dry_run, delete, parent, initFiles, files, outdirs, pc, scan, files_to_process, todo, current, exit_code,
                    base_input, original_resolution, source_file, tmpdirs,
                    socks, encoder, ctx_exit, seenPlan, calls, spawned, issued,
                    failure >>
    /\ UNCHANGED notRunVars

\* _process_resolution, lines 404-429: the rung is to be encoded.
BeginEncode ==
    /\ pc = "ladder"
    /\ rung <= Len(video_resolutions)
    /\ ~SkipSD(Target, original_resolution)
    /\ RungApplies(current_resolution, Target)
    /\ ~SkipRung(source_file, current_resolution, Target)
    /\ plan' = Append(plan, Target)
    /\ pc' = "inspect"
    /\ UNCHANGED << dry_run, delete, parent, initFiles, files, outdirs, scan, files_to_process, todo, current, exit_code,
                    base_input, original_resolution, current_resolution,
                    source_file, rung, tmpdirs, socks, encoder, ctx_exit,
                    seenPlan, calls, spawned, issued, failure >>
    /\ UNCHANGED notRunVars


\* _encode_video, lines 536-554: the HDR check, the audio probe and the
\* duration probe, each a subprocess; what they find only sets options of
\* the encoder command.  A from_path that is gone makes ffmpeg.probe raise,
\* and nothing catches it.
Inspect ==
    /\ pc = "inspect"
    /\ spawned' = spawned \cup {"hdr_check", "audio_probe", "duration_probe"}
    /\ IF FromPath \notin DOMAIN files
       THEN /\ pc' = "crashed"
            /\ exit_code' = 1
       ELSE /\ pc' = "progress"
            /\ UNCHANGED exit_code
    /\ UNCHANGED << dry_run, delete, parent, initFiles, files, outdirs, scan,
                    files_to_process, todo, current, base_input,
                    original_resolution, current_resolution, source_file, rung,
                    tmpdirs, socks, encoder, ctx_exit, plan, seenPlan, calls,
                    issued, failure >>
    /\ UNCHANGED notRunVars

\* show_progress and _watch_progress, lines 80-88: the temporary directory,
\* the bound and listening socket, the body of the with statement begins.
EnterProgress ==
    /\ pc = "progress"
    /\ tmpdirs' = tmpdirs + 1
    /\ socks' = socks + 1
    /\ pc' = "foreground"
    /\ UNCHANGED << dry_run, delete, parent, initFiles, files, outdirs, scan, files_to_process, todo, current, exit_code,
                    base_input, original_resolution, current_resolution,
                    source_file, rung, encoder, ctx_exit, plan, seenPlan, calls,
                    spawned, issued, failure >>
    /\ UNCHANGED notRunVars

\* _watch_progress, lines 80-84: bind raises; the socket and the directory
\* are released on the way out and nothing catches the error.
BindFails ==
    /\ pc = "progress"
    /\ tmpdirs' = TmpdirScopeExit(tmpdirs + 1, "bind")
    /\ socks' = ClosingExit(socks + 1, "bind")
    /\ ctx_exit' = "bind"
    /\ pc' = "crashed"
    /\ exit_code' = 1
    /\ UNCHANGED << dry_run, delete, parent, initFiles, files, outdirs, scan, files_to_process, todo, current, base_input,
                    original_resolution, current_resolution, source_file, rung,
                    encoder, plan, seenPlan, calls, spawned, issued, failure >>
    /\ UNCHANGED notRunVars

\* _encode_video, lines 611-620: a dry run logs the command and leaves the
\* context.
DryRunEncode ==
    /\ pc = "foreground"
    /\ dry_run
    /\ tmpdirs' = TmpdirScopeExit(tmpdirs, "return")
    /\ socks' = ClosingExit(socks, "return")
    /\ ctx_exit' = "return"
    /\ pc' = "relocate"
    /\ UNCHANGED << dry_run, delete, parent, initFiles, files, outdirs, scan, files_to_process, todo, current, exit_code,
                    base_input, original_resolution, current_resolution,
                    source_file, rung, encoder, plan, seenPlan, calls, spawned,
                    issued, failure >>
    /\ UNCHANGED notRunVars

\* _encode_video, lines 622-626: the encoder subprocess is started.
StartEncoder ==
    /\ pc = "foreground"
    /\ ~dry_run
    /\ encoder' = "running"
    /\ calls' = Append(calls, [dir |-> base_input, src |-> source_file,
                               current_resolution |-> current_resolution,
                               target |-> Target])
    /\ spawned' = spawned \cup {"encoder"}
    /\ pc' = "waiting"
    /\ UNCHANGED << dry_run, delete, parent, initFiles, files, outdirs, scan, files_to_process, todo, current, exit_code,
                    base_input, original_resolution, current_resolution,
                    source_file, rung, tmpdirs, socks, ctx_exit, plan, seenPlan,
                    issued, failure >>
    /\ UNCHANGED notRunVars

\* _encode_video, lines 622-626, and _watch_progress, lines 89-91: the
\* encoder cannot be started (an OSError, not an ffmpeg.Error); the error
\* leaves the context and nothing catches it.
LaunchFails ==
    /\ pc = "foreground"
    /\ ~dry_run
    /\ tmpdirs' = TmpdirScopeExit(tmpdirs, "exception")
    /\ socks' = ClosingExit(socks, "exception")
    /\ ctx_exit' = "exception"
    /\ pc' = "crashed"
    /\ exit_code' = 1
    /\ UNCHANGED << dry_run, delete, parent, initFiles, files, outdirs, scan, files_to_process, todo, current, base_input,
                    original_resolution, current_resolution, source_file, rung,
                    encoder, plan, seenPlan, calls, spawned, issued, failure >>
    /\ UNCHANGED notRunVars

\* The encoder ends with status 0: to_path holds the encode (-y overwrites),
\* run returns and the context is left.
EncoderSucceeds ==
    /\ pc = "waiting"
    /\ files' = WriteFile(files, ToPath, "enc")
    /\ encoder' = "idle"
    /\ tmpdirs' = TmpdirScopeExit(tmpdirs, "return")
    /\ socks' = ClosingExit(socks, "return")
    /\ ctx_exit' = "return"
    /\ pc' = "relocate"
    /\ UNCHANGED << dry_run, delete, parent, initFiles, outdirs, scan,
                    files_to_process, todo, current, exit_code, base_input,
                    original_resolution, current_resolution, source_file, rung,
                    plan, seenPlan, calls, spawned, issued, failure >>
    /\ UNCHANGED notRunVars

\* _encode_video, lines 627-630: the encoder reports an error, which is
\* printed, and sys.exit(1) leaves the context.  The encoder may leave a
\* partial to_path behind.
EncoderFails ==
    /\ pc = "waiting"
    /\ \E partial \in BOOLEAN :
         files' = IF partial THEN WriteFile(files, ToPath, "partial") ELSE files
    /\ encoder' = "idle"
    /\ tmpdirs' = TmpdirScopeExit(tmpdirs, "sysexit")
    /\ socks' = ClosingExit(socks, "sysexit")
    /\ ctx_exit' = "sysexit"
    /\ failure' = [ncalls |-> Len(calls), nissued |-> Len(issued),
                   current |-> current, rung |-> rung]
    /\ pc' = AfterEncoderError
    /\ exit_code' = IF AfterEncoderError = "exited" THEN 1 ELSE exit_code
    /\ UNCHANGED << dry_run, delete, parent, initFiles, outdirs, scan,
                    files_to_process, todo, current, base_input,
                    original_resolution, current_resolution, source_file, rung,
                    plan, seenPlan, calls, spawned, issued >>
    /\ UNCHANGED notRunVars

\* _process_resolution, lines 431-447: the directory made for the source and
\* the place the source goes to.
SourceDirs(processed) ==
    IF processed THEN {[bucket |-> LibraryName(current_resolution),
                        dir |-> base_input]}
    ELSE IF Target = 2160 THEN {[bucket |-> "orig", dir |-> base_input]}
    ELSE {}

SourceToPath(processed) ==
    IF processed
    THEN OutPath(LibraryName(current_resolution), base_input, source_file)
    ELSE OutPath("orig", base_input, source_file)

\* _process_resolution, lines 448-456: the statements given to _run.
SourceStmts(processed) ==
    IF delete
    THEN IF processed \/ Target = 2160
         THEN << Stmt("move", FromPath, SourceToPath(processed)),
                 Stmt("chmod", SourceToPath(processed), NoPath) >>
         ELSE << Stmt("remove", FromPath, NoPath) >>
    ELSE IF processed \/ Target = 2160
         THEN << Stmt("copyfile", FromPath, SourceToPath(processed)),
                 Stmt("chmod", SourceToPath(processed), NoPath) >>
         ELSE << >>

\* _process_resolution, lines 431-458, and lines 302-310: the source of the
\* rung is filed and the rung's output becomes the working file.
Relocate ==
    /\ pc = "relocate"
    /\ LET processed == IsProcessed(source_file, current_resolution)
       IN  /\ outdirs' = outdirs \cup SourceDirs(processed)
           /\ files' = RunAll(SourceStmts(processed), files, parent, dry_run)
           /\ issued' = issued \o SourceStmts(processed)
    /\ current_resolution' = Target
    /\ source_file' = Marked(Target)
    /\ rung' = rung + 1
    /\ pc' = "ladder"
    /\ UNCHANGED << dry_run, delete, parent, initFiles, scan,
                    files_to_process, todo, current, exit_code, base_input,
                    original_resolution, tmpdirs, socks, encoder, ctx_exit,
                    plan, seenPlan, calls, spawned, failure >>
    /\ UNCHANGED notRunVars

\* _process_movie_file, lines 315-323: the statements given to _run.
FinalStmts ==
    LET from_path == InPath(base_input, source_file)
        to_path   == OutPath("main", base_input, source_file)
    IN  IF delete
        THEN << Stmt("move", from_path, to_path),
                Stmt("chmod", to_path, NoPath),
                Stmt("rmtree", InPath(base_input, NoFile), NoPath) >>
        ELSE << Stmt("copyfile", from_path, to_path),
                Stmt("chmod", to_path, NoPath) >>

\* _process_movie_file, lines 312-323: the ladder is over, the working file
\* is filed in the main bucket and the input directory removed.
FinishFile ==
    /\ pc = "ladder"
    /\ rung > Len(video_resolutions)
    /\ outdirs' = outdirs \cup {[bucket |-> "main", dir |-> base_input]}
    /\ files' = RunAll(FinalStmts, files, parent, dry_run)
    /\ issued' = issued \o FinalStmts
    /\ seenPlan' = [seenPlan EXCEPT ![original_resolution] =
                                      IF @ = << >> THEN plan ELSE @]
    /\ pc' = "return"
    /\ UNCHANGED << dry_run, delete, parent, initFiles, scan,
                    files_to_process, todo, current, exit_code, base_input,
                    original_resolution, current_resolution, source_file, rung,
                    tmpdirs, socks, encoder, ctx_exit, plan, calls, spawned,
                    failure >>
    /\ UNCHANGED notRunVars

\* _process_files, line 265: the file is taken off the queue.
Dequeue ==
    /\ pc = "return"
    /\ files_to_process' = RemoveFirst(files_to_process, todo[current])
    /\ pc' = "next"
    /\ UNCHANGED << dry_run, delete, parent, initFiles, files, outdirs, scan, todo, current, exit_code, base_input,
                    original_resolution, current_resolution, source_file, rung,
                    tmpdirs, socks, encoder, ctx_exit, plan, seenPlan, calls,
                    spawned, issued, failure >>
    /\ UNCHANGED notRunVars

Next ==
    \/ CheckMovies
    \/ ProcessFiles
    \/ Finish
    \/ ProbeMissing
    \/ ProbeFile
    \/ PassRung
    \/ ReuseRung
    \/ BeginEncode
    \/ Inspect
    \/ EnterProgress
    \/ BindFails
    \/ DryRunEncode
    \/ StartEncoder
    \/ LaunchFails
    \/ EncoderSucceeds
    \/ EncoderFails
    \/ Relocate
    \/ FinishFile
    \/ Dequeue

Spec == Init /\ [][Next]_vars


\* ------------------------------------------------------------------ the gauge
\* bar.update(n_steps) of the progress bar: the position advances by n_steps.
BarUpdate(pos, n_steps) == pos + n_steps

\* lines 109-110: bar.update(out_time - bar.pos)
OutTimeDelta(out_time, pos) == out_time - pos

\* line 122: f"{value:>7}", the value right-aligned in seven columns.
Pad7(value) ==
    CASE value = "1.0x" -> "   1.0x"
      [] value = "12.5x" -> "  12.5x"
      [] OTHER -> value

\* Mutant of line 119: the step to the end is never negative.
EndDeltaClamped(length, pos) == IF pos > length THEN 0 ELSE length - pos

\* line 119: bar.length - bar.pos, whatever its sign.
EndDelta(length, pos) == length - pos

OutTimes == {500 * k : k \in 0..MaxTicks}

Durations == {500 * k : k \in 1..MaxTicks}

\* The values of the speed records.
SpeedValues == {"1.0x", "12.5x"}

\* show_progress, lines 100-103: a new gauge of length total_duration, its
\* label set when the job seeks.
InitProgress ==
    /\ bar_length \in Durations
    /\ bar_pos = 0
    /\ seek \in BOOLEAN
    /\ bar_label = (IF seek THEN "seeking..." ELSE "")
    /\ moved = FALSE
    /\ last_key = "none"
    /\ prev_pos = 0
    /\ nevents = 0
    /\ RunIdle
    /\ DedupIdle
    /\ WatchIdle
    /\ JobIdle
    /\ AudioIdle

\* handler, lines 108-110: an out_time_ms record.
OutTimeMs ==
    /\ nevents < MaxEvents
    /\ \E out_time \in OutTimes :
         bar_pos' = BarUpdate(bar_pos, OutTimeDelta(out_time, bar_pos))
    /\ prev_pos' = bar_pos
    /\ last_key' = "out_time_ms"
    /\ nevents' = nevents + 1
    /\ moved' = (moved \/ bar_pos' > 0)
    /\ UNCHANGED << bar_length, bar_label, seek >>
    /\ UNCHANGED notBarVars

\* handler, lines 118-119: progress=end.
ProgressEnd ==
    /\ nevents < MaxEvents
    /\ bar_pos' = BarUpdate(bar_pos, EndDelta(bar_length, bar_pos))
    /\ prev_pos' = bar_pos
    /\ last_key' = "progress=end"
    /\ nevents' = nevents + 1
    /\ moved' = (moved \/ bar_pos' > 0)
    /\ UNCHANGED << bar_length, bar_label, seek >>
    /\ UNCHANGED notBarVars

\* handler, lines 120-122: a speed record.
Speed ==
    /\ nevents < MaxEvents
    /\ \E value \in SpeedValues :
         bar_label' = IF bar_label # "seeking..." \/ bar_pos > 0
                      THEN Pad7(value) ELSE bar_label
    /\ prev_pos' = bar_pos
    /\ last_key' = "speed"
    /\ nevents' = nevents + 1
    /\ UNCHANGED << bar_length, bar_pos, seek, moved >>
    /\ UNCHANGED notBarVars

\* handler, lines 108-122: any other record (progress=continue, frame, fps)
\* falls through.
OtherRecord ==
    /\ nevents < MaxEvents
    /\ prev_pos' = bar_pos
    /\ last_key' = "other"
    /\ nevents' = nevents + 1
    /\ UNCHANGED << bar_length, bar_pos, bar_label, seek, moved >>
    /\ UNCHANGED notBarVars

NextProgress ==
    \/ OutTimeMs
    \/ ProgressEnd
    \/ Speed
    \/ OtherRecord

SpecProgress == InitProgress /\ [][NextProgress]_vars

\* ------------------------------------------------- _find_highest_res alone
\* The names one directory may list.
DedupNames ==
    {Unmarked("mkv"), Unmarked("avi"), Marked(480), Marked(720), Marked(1080)}

Listings ==
    {ls \in UNION {[1..n -> DedupNames] : n \in 2..MaxSiblings} :
        \A i, j \in 1..Len(ls) : ls[i] = ls[j] => i = j}

InitDedup ==
    /\ listing \in Listings
    /\ master_file = NoFile
    /\ RunIdle
    /\ BarIdle
    /\ WatchIdle
    /\ JobIdle
    /\ AudioIdle

\* _check_movies, line 228: master = self._find_highest_res(files)
FindHighestRes ==
    /\ master_file = NoFile
    /\ master_file' = _find_highest_res(listing)
    /\ UNCHANGED listing
    /\ UNCHANGED notDedupVars

NextDedup == FindHighestRes

SpecDedup == InitDedup /\ [][NextDedup]_vars


\* ------------------------------------------------ _do_watch_progress alone
\* The bytes of the stream: a letter, the separator of key and value, and
\* the newline.
Bytes == {"a", "=", "nl"}

\* line 47: connection.recv(16) returns at most 16 bytes.
RecvMax == 16

Streams == UNION {[1..n -> Bytes] : n \in 0..MaxStream}

\* The place of the first sep in s, 0 when there is none.
IndexOf(s, sep) ==
    IF \E i \in 1..Len(s) : s[i] = sep
    THEN CHOOSE i \in 1..Len(s) : s[i] = sep /\ \A j \in 1..(i - 1) : s[j] # sep
    ELSE 0

\* bytes.split(sep) and str.split(sep): the parts between the separators,
\* one part more than there are separators.
RECURSIVE Split(_, _)
Split(s, sep) ==
    IF IndexOf(s, sep) = 0 THEN << s >>
    ELSE << SubSeq(s, 1, IndexOf(s, sep) - 1) >>
             \o Split(SubSeq(s, IndexOf(s, sep) + 1, Len(s)), sep)

\* None, which no sequence of Bytes is equal to.
NoValue == << "None" >>

\* lines 53-56: the key and the value the handler is called with.
KeyValue(line) ==
    LET parts == Split(line, "=")
    IN  [key   |-> IF Len(parts) > 0 THEN parts[1] ELSE NoValue,
         value |-> IF Len(parts) > 1 THEN parts[2] ELSE NoValue]

\* Mutant of line 59: nothing is kept from one round to the next.
CarryNothing(lines) == << >>

\* line 59: data = lines[-1]
Carry(lines) == lines[Len(lines)]

InitWatch ==
    /\ stream \in Streams
    /\ unread = stream
    /\ connection = "listening"
    /\ data = << >>
    /\ handled = << >>
    /\ RunIdle
    /\ BarIdle
    /\ DedupIdle
    /\ JobIdle
    /\ AudioIdle

\* line 44: connection, _ = sock.accept()
Accept ==
    /\ connection = "listening"
    /\ connection' = "open"
    /\ UNCHANGED << stream, unread, data, handled >>
    /\ UNCHANGED notWatchVars

\* lines 47-59, one round of the loop: recv returns some of the bytes not
\* yet read, the lines they end are handed to the handler in order and the
\* rest is kept.
Recv ==
    /\ connection = "open"
    /\ unread # << >>
    /\ \E n \in 1..Len(unread) :
         /\ n <= RecvMax
         /\ LET more_data == SubSeq(unread, 1, n)
                lines == Split(data \o more_data, "nl")
            IN  /\ handled' = handled \o [i \in 1..(Len(lines) - 1) |->
                                             KeyValue(lines[i])]
                /\ data' = Carry(lines)
         /\ unread' = SubSeq(unread, n + 1, Len(unread))
    /\ UNCHANGED << stream, connection >>
    /\ UNCHANGED notWatchVars

\* lines 48-49 and 60-61: recv returns no byte once the peer has closed; the
\* loop is left and the connection closed.
RecvEnd ==
    /\ connection = "open"
    /\ unread = << >>
    /\ connection' = "closed"
    /\ UNCHANGED << stream, unread, data, handled >>
    /\ UNCHANGED notWatchVars

NextWatch ==
    \/ Accept
    \/ Recv
    \/ RecvEnd

SpecWatch == InitWatch /\ [][NextWatch]_vars


\* ------------------------------------- one encode job and its monitor task
\* The kinds of progress record: one the handler takes, and one it raises
\* on (out_time_ms=N/A, a speed record without a value).
Records == {"good", "malformed"}

\* The greenlet has not ended.
Alive(c) == c \in {"scheduled", "accepting", "reading"}

\* lines 87-91: the monitor is killed when an Exception leaves the body, and
\* on no other way out ("return", "sysexit").
ChildAfterExit(c, how) == IF how = "exception" /\ Alive(c) THEN "killed" ELSE c

\* Mutant of lines 627-630: the encoder's error is not looked at.
BodyOutcomeIgnoresError(code) == "return"

\* lines 621-630: run() raises ffmpeg.Error on a non-zero return code, and
\* the handler of that error leaves through sys.exit(1).
BodyOutcome(code) == IF code = 0 THEN "return" ELSE "sysexit"

\* The foreground is inside a call that yields to the hub (the wait for the
\* encoder, the patched time.sleep), or has gone on after the job.
Yielded == fg \in {"waiting", "sleeping", "left"}

InitJob ==
    /\ job_dry_run \in BOOLEAN
    /\ fake \in BOOLEAN
    /\ fg = "enter"
    /\ sock = "none"
    /\ child = "none"
    /\ accepted = FALSE
    /\ proc = "none"
    /\ returncode = -1
    /\ backlog = FALSE
    /\ pipe = << >>
    /\ outcome = "none"
    /\ RunIdle
    /\ BarIdle
    /\ DedupIdle
    /\ WatchIdle
    /\ AudioIdle

\* _watch_progress, lines 80-86: the socket is bound and listens, the
\* monitor is spawned (it runs when the foreground next yields) and the
\* body of the with statement is entered.
WatchProgressEnter ==
    /\ fg = "enter"
    /\ fg' = "body"
    /\ sock' = "listening"
    /\ child' = "scheduled"
    /\ UNCHANGED << job_dry_run, fake, accepted, proc, returncode, backlog,
                    pipe, outcome >>
    /\ UNCHANGED notJobVars

\* _watch_progress, line 84: bind raises before the monitor is spawned; the
\* socket is closed by contextlib.closing.
WatchProgressBindFails ==
    /\ fg = "enter"
    /\ fg' = "left"
    /\ sock' = "closed"
    /\ outcome' = "exception"
    /\ UNCHANGED << job_dry_run, fake, child, accepted, proc, returncode,
                    backlog, pipe >>
    /\ UNCHANGED notJobVars

\* The body is left: the except clause of _watch_progress, then the socket
\* is closed.
LeaveBody(how) ==
    /\ fg' = "left"
    /\ outcome' = how
    /\ child' = ChildAfterExit(child, how)
    /\ sock' = "closed"

\* _encode_video, lines 610-611 and 632-635: a dry run logs the command; the
\* foreground never yields inside the body.
JobDryRun ==
    /\ fg = "body"
    /\ job_dry_run
    /\ ~fake
    /\ LeaveBody("return")
    /\ UNCHANGED << job_dry_run, fake, accepted, proc, returncode, backlog,
                    pipe >>
    /\ UNCHANGED notJobVars

\* _encode_video, lines 612-618: a faked dry run sleeps.
JobFakeSleep ==
    /\ fg = "body"
    /\ job_dry_run
    /\ fake
    /\ fg' = "sleeping"
    /\ UNCHANGED << job_dry_run, fake, sock, child, accepted, proc,
                    returncode, backlog, pipe, outcome >>
    /\ UNCHANGED notJobVars

\* _encode_video, lines 619 and 632-635: the faked run is over.
JobFakeDone ==
    /\ fg = "sleeping"
    /\ LeaveBody("return")
    /\ UNCHANGED << job_dry_run, fake, accepted, proc, returncode, backlog,
                    pipe >>
    /\ UNCHANGED notJobVars

\* _encode_video, lines 621-625: the encoder is started and waited for.
JobLaunch ==
    /\ fg = "body"
    /\ ~job_dry_run
    /\ fg' = "waiting"
    /\ proc' = "running"
    /\ UNCHANGED << job_dry_run, fake, sock, child, accepted, returncode,
                    backlog, pipe, outcome >>
    /\ UNCHANGED notJobVars

\* _encode_video, lines 621-625: the encoder cannot be started; Popen raises
\* an OSError, which is not an ffmpeg.Error.
JobLaunchFails ==
    /\ fg = "body"
    /\ ~job_dry_run
    /\ LeaveBody("exception")
    /\ UNCHANGED << job_dry_run, fake, accepted, proc, returncode, backlog,
                    pipe >>
    /\ UNCHANGED notJobVars

\* The encoder opens the address given with -progress.
EncoderConnects ==
    /\ proc = "running"
    /\ sock = "listening"
    /\ proc' = "connected"
    /\ backlog' = TRUE
    /\ UNCHANGED << job_dry_run, fake, fg, sock, child, accepted, returncode,
                    pipe, outcome >>
    /\ UNCHANGED notJobVars

\* The encoder writes a progress record.
EncoderWrites ==
    /\ proc = "connected"
    /\ Len(pipe) < MaxRecords
    /\ \E r \in Records : pipe' = Append(pipe, r)
    /\ UNCHANGED << job_dry_run, fake, fg, sock, child, accepted, proc,
                    returncode, backlog, outcome >>
    /\ UNCHANGED notJobVars

\* The encoder ends, connected or not, with a return code.
EncoderExits ==
    /\ proc \in {"running", "connected"}
    /\ proc' = "exited"
    /\ \E code \in {0, 1} : returncode' = code
    /\ UNCHANGED << job_dry_run, fake, fg, sock, child, accepted, backlog,
                    pipe, outcome >>
    /\ UNCHANGED notJobVars

\* _encode_video, lines 625-635: the wait for the encoder is over.
JobWaitReturns ==
    /\ fg = "waiting"
    /\ proc = "exited"
    /\ LeaveBody(BodyOutcome(returncode))
    /\ UNCHANGED << job_dry_run, fake, accepted, proc, returncode, backlog,
                    pipe >>
    /\ UNCHANGED notJobVars

\* _do_watch_progress, line 44: the monitor starts and calls accept, which
\* raises at once on a socket closed already.
ChildStart ==
    /\ child = "scheduled"
    /\ Yielded
    /\ child' = IF sock = "listening" THEN "accepting" ELSE "aborted"
    /\ UNCHANGED << job_dry_run, fake, fg, sock, accepted, proc, returncode,
                    backlog, pipe, outcome >>
    /\ UNCHANGED notJobVars

\* line 44: accept returns the encoder's connection.
ChildAccepts ==
    /\ child = "accepting"
    /\ Yielded
    /\ sock = "listening"
    /\ backlog
    /\ child' = "reading"
    /\ accepted' = TRUE
    /\ backlog' = FALSE
    /\ UNCHANGED << job_dry_run, fake, fg, sock, proc, returncode, pipe,
                    outcome >>
    /\ UNCHANGED notJobVars

\* line 44: accept raises on its own while the socket listens.
ChildAcceptFails ==
    /\ child = "accepting"
    /\ Yielded
    /\ sock = "listening"
    /\ child' = "failed_accept"
    /\ UNCHANGED << job_dry_run, fake, fg, sock, accepted, proc, returncode,
                    backlog, pipe, outcome >>
    /\ UNCHANGED notJobVars

\* line 44: the socket was closed under the waiting monitor; the wait may be
\* ended with an error by the event loop.
ChildAcceptAborted ==
    /\ child = "accepting"
    /\ Yielded
    /\ sock = "closed"
    /\ child' = "aborted"
    /\ UNCHANGED << job_dry_run, fake, fg, sock, accepted, proc, returncode,
                    backlog, pipe, outcome >>
    /\ UNCHANGED notJobVars

\* lines 47-59 and 105-122: a record is received and handed to the handler,
\* which raises on a malformed one; the exception ends the monitor.
ChildRecv ==
    /\ child = "reading"
    /\ Yielded
    /\ pipe # << >>
    /\ child' = IF Head(pipe) = "good" THEN "reading" ELSE "failed_handler"
    /\ pipe' = Tail(pipe)
    /\ UNCHANGED << job_dry_run, fake, fg, sock, accepted, proc, returncode,
                    backlog, outcome >>
    /\ UNCHANGED notJobVars

\* line 48: recv raises.
ChildRecvFails ==
    /\ child = "reading"
    /\ Yielded
    /\ child' = "failed_recv"
    /\ UNCHANGED << job_dry_run, fake, fg, sock, accepted, proc, returncode,
                    backlog, pipe, outcome >>
    /\ UNCHANGED notJobVars

\* lines 48-49 and 60-61: the encoder has ended and every record is read.
ChildEnds ==
    /\ child = "reading"
    /\ Yielded
    /\ pipe = << >>
    /\ proc = "exited"
    /\ child' = "done"
    /\ UNCHANGED << job_dry_run, fake, fg, sock, accepted, proc, returncode,
                    backlog, pipe, outcome >>
    /\ UNCHANGED notJobVars

NextJob ==
    \/ WatchProgressEnter
    \/ WatchProgressBindFails
    \/ JobDryRun
    \/ JobFakeSleep
    \/ JobFakeDone
    \/ JobLaunch
    \/ JobLaunchFails
    \/ EncoderConnects
    \/ EncoderWrites
    \/ EncoderExits
    \/ JobWaitReturns
    \/ ChildStart
    \/ ChildAccepts
    \/ ChildAcceptFails
    \/ ChildAcceptAborted
    \/ ChildRecv
    \/ ChildRecvFails
    \/ ChildEnds

SpecJob == InitJob /\ [][NextJob]_vars


\* -------------------------------------------------- _get_audio_track alone
\* The language tags of a stream; "none" is a stream without the tag.
Languages == {"eng", "jpn", "none"}

\* The lists the prober may return for -select_streams a: the audio streams
\* of the file in stream order, each with its index among all the streams of
\* the file.
AudioLists ==
    {ls \in UNION {[1..n -> [index : 0..MaxIndex, lang : Languages]] :
                       n \in 0..MaxAudio} :
        \A i \in 1..(Len(ls) - 1) : ls[i].index < ls[i + 1].index}

\* line 522: stream.get("index", index + 1) - 1; the prober is asked for
\* stream=index and every stream of its list carries the key.
TrackOf(st, i) == st.index - 1

\* lines 518-526: the loop over the streams from the i-th on.
RECURSIVE ScanAudio(_, _, _, _)
ScanAudio(ls, i, trk, lng) ==
    IF i > Len(ls) THEN [track |-> trk, language |-> lng]
    ELSE IF ls[i].lang = "eng" \/ i = 1
         THEN IF ls[i].lang = "eng"
              THEN [track |-> TrackOf(ls[i], i), language |-> "eng"]
              ELSE ScanAudio(ls, i + 1, TrackOf(ls[i], i), ls[i].lang)
         ELSE ScanAudio(ls, i + 1, trk, lng)

\* lines 528-529: a language of None is reported as eng.
DefaultLanguage(lng) == IF lng = "none" THEN "eng" ELSE lng

InitAudio ==
    /\ audio_streams \in AudioLists
    /\ parsed = FALSE
    /\ language = "none"
    /\ track = 0
    /\ RunIdle
    /\ BarIdle
    /\ DedupIdle
    /\ WatchIdle
    /\ JobIdle

\* _get_audio_track, lines 510-533, the prober's output being JSON.
GetAudioTrack ==
    /\ language = "none"
    /\ parsed' = TRUE
    /\ LET found == ScanAudio(audio_streams, 1, 0, "none")
       IN  /\ track' = found.track
           /\ language' = DefaultLanguage(found.language)
    /\ UNCHANGED audio_streams
    /\ UNCHANGED notAudioVars

\* _get_audio_track, lines 510-516 and 528-533: the output is not JSON.
GetAudioTrackUnparsed ==
    /\ language = "none"
    /\ parsed' = FALSE
    /\ track' = 0
    /\ language' = DefaultLanguage("none")
    /\ UNCHANGED audio_streams
    /\ UNCHANGED notAudioVars

NextAudio ==
    \/ GetAudioTrack
    \/ GetAudioTrackUnparsed

SpecAudio == InitAudio /\ [][NextAudio]_vars


\* ==================================================================== claims
\* The loop over the rungs has ended for the file at hand.
LadderOver == pc = "ladder" /\ rung > Len(video_resolutions)

InPlan(h) == \E i \in 1..Len(plan) : plan[i] = h

\* C1: the rungs handed to _process_resolution for a file are in strictly
\* descending height order, none is above the probed resolution R, and the
\* sequence is a function of R: a file of a resolution seen before in the
\* run ends its ladder with the sequence the earlier file had.
C1_RungsDescendWithinSource ==
    /\ \A i \in 1..Len(plan) : plan[i] <= original_resolution
    /\ \A i \in 1..(Len(plan) - 1) : plan[i] > plan[i + 1]
    /\ (LadderOver /\ seenPlan[original_resolution] # << >>)
           => plan = seenPlan[original_resolution]

\* C1 witness: the second file of a run ends a ladder of two rungs or more,
\* and the first file had the same resolution.
C1_Witness ==
    /\ LadderOver
    /\ current = 2
    /\ Len(plan) >= 2
    /\ seenPlan[original_resolution] # << >>

\* C2: when the ladder of a file of resolution R is over, the 480 rung is in
\* the plan exactly when R is not above 480, every other rung is in it
\* exactly when it is at or below R, plan(2160) = [2160, 1080, 720] and
\* plan(480) = [480].
C2_SDRungOnlyForSD ==
    LadderOver =>
        /\ \A h \in Heights :
             InPlan(h) <=> (h <= original_resolution
                            /\ (h = 480 => original_resolution <= 480))
        /\ original_resolution = 2160 => plan = << 2160, 1080, 720 >>
        /\ original_resolution = 480 => plan = << 480 >>

\* C2 witness: the ladder of a 480 source is over with the 480 rung in it.
C2_Witness == LadderOver /\ original_resolution = 480 /\ InPlan(480)

\* C3 as claimed: the plan of a source probed at 720 is [720, 480].
C3_Plan720WithSD ==
    (LadderOver /\ original_resolution = 720) => plan = << 720, 480 >>

\* C3 as amended: the plan of a source probed at 720 is exactly [720]; the
\* 480 rung is passed over.
C3_Plan720Alone ==
    (LadderOver /\ original_resolution = 720) => plan = << 720 >>

\* C3 witness: the ladder of a 720 source is over after the 720 rung.
C3_Witness == LadderOver /\ original_resolution = 720 /\ Len(plan) = 1


\* C4 as claimed: an out_time_ms event never leaves the gauge at a position
\* below the one it had before the event.
C4_GaugeNeverRegresses == last_key = "out_time_ms" => bar_pos >= prev_pos

\* C5 as claimed: a dry run changes no file and no directory, makes no
\* temporary directory or socket, starts no subprocess in any rung (the
\* resolution probe that precedes the ladder is not counted), and does not
\* end in an uncaught error of its own probing.
C5_DryRunLeavesNoTrace ==
    dry_run =>
        /\ files = initFiles
        /\ outdirs = {}
        /\ tmpdirs = 0
        /\ socks = 0
        /\ spawned \subseteq {"probe"}
        /\ (pc = "crashed" => ctx_exit = "bind")

\* Some name of the listing carries the <NNN>p.mp4 suffix.
SomeSuffixed == \E i \in 1..Len(listing) : EndsWithPMp4(listing[i])

\* C6 as claimed: among siblings of which at least one carries the suffix,
\* the survivor carries it and no sibling has a higher resolution suffix,
\* whatever the order of the listing.
C6_SurvivorIsHighest ==
    (master_file # NoFile /\ SomeSuffixed) =>
        /\ EndsWithPMp4(master_file)
        /\ \A i \in 1..Len(listing) :
             EndsWithPMp4(listing[i]) => ResOf(listing[i]) <= ResOf(master_file)

\* The file at hand came to the ladder carrying the marker of its probed
\* resolution.
Reused ==
    /\ original_resolution \in Heights
    /\ current >= 1
    /\ todo[current].dir = base_input
    /\ todo[current].name = Marked(original_resolution)

InOutputTree(d, name) ==
    \E bucket \in {"main", "2160p", "orig"} :
        OutPath(bucket, d, name) \in DOMAIN files

FilingIssued(d, name) ==
    \E i \in 1..Len(issued) :
        /\ issued[i].op \in {"move", "copyfile"}
        /\ issued[i].src = InPath(d, name)
        /\ issued[i].dst.loc \in {"main", "2160p"}
        /\ issued[i].dst.dir = d
        /\ issued[i].dst.name = name

\* C7: the encoder is never started for a rung H on a working file that
\* carries the marker of H at current resolution H; and when
\* _process_movie_file returns for a file that came with the marker of its
\* resolution, the move or copy of that file into the output tree has been
\* given to _run, and outside a dry run the file is in the output tree.
C7_ReusedRungFiled ==
    /\ \A i \in 1..Len(calls) :
         ~(IsProcessed(calls[i].src, calls[i].current_resolution)
           /\ calls[i].current_resolution = calls[i].target)
    /\ (pc = "return" /\ Reused) =>
         /\ FilingIssued(base_input, Marked(original_resolution))
         /\ ~dry_run => InOutputTree(base_input, Marked(original_resolution))

\* C7 witness: a file that came marked 1080 at resolution 1080 has been
\* through its ladder, a lower rung was encoded from it, and it is filed.
C7_Witness ==
    /\ pc = "return"
    /\ Reused
    /\ original_resolution = 1080
    /\ Len(calls) >= 1
    /\ OutPath("main", base_input, Marked(1080)) \in DOMAIN files

\* C8: once the encoder has reported a failure the run has ended with exit
\* status 1 and nothing has happened since: no further encoder invocation
\* (no retry, no later rung, no later file), no statement given to _run (no
\* relocation), the same file and rung at hand.  A run that ends with status
\* 0 has seen no encoder failure.
C8_EncoderFailureEndsRun ==
    /\ failure # NoFailure =>
         /\ pc = "exited"
         /\ exit_code = 1
         /\ encoder = "idle"
         /\ Len(calls) = failure.ncalls
         /\ Len(issued) = failure.nissued
         /\ current = failure.current
         /\ rung = failure.rung
    /\ exit_code = 0 => failure = NoFailure

\* C8 witness: the encoder failed while a later rung of the file and a later
\* file of the queue were still to come.
C8_Witness ==
    /\ pc = "exited"
    /\ failure # NoFailure
    /\ current < Len(todo)
    /\ rung < 3
    /\ original_resolution = 1080

\* C9: outside the body of the progress context (before a job, after it has
\* returned, after a bind failure, after an error or sys.exit in the body)
\* no listening socket is open and no temporary directory exists.
C9_ContextReleased ==
    pc \notin {"foreground", "waiting"} => (socks = 0 /\ tmpdirs = 0)

\* C9 witness: the body was left by sys.exit after an encoder failure.
C9_Witness ==
    /\ pc = "exited"
    /\ ctx_exit = "sysexit"
    /\ socks = 0
    /\ tmpdirs = 0

\* C10 as claimed: without delete mode every file of the input tree is where
\* it was when the run started, with the content it had.
C10_NoDeleteKeepsInput ==
    ~delete =>
        \A p \in DOMAIN initFiles : p \in DOMAIN files /\ files[p] = initFiles[p]

\* C11: a progress=end record leaves the gauge at its configured length,
\* whatever the position before it: zero, below the length or past it.
C11_EndSetsPositionToLength == last_key = "progress=end" => bar_pos = bar_length

\* progress=end has been handled with the gauge already past its length.
C11_Witness ==
    /\ last_key = "progress=end"
    /\ prev_pos > bar_length
    /\ bar_pos = bar_length

\* The bytes received so far.
Received == SubSeq(stream, 1, Len(stream) - Len(unread))

\* The handler calls of a delivery of the bytes in one piece.
Unsplit(bytes) ==
    LET lines == Split(bytes, "nl")
    IN  [i \in 1..(Len(lines) - 1) |-> KeyValue(lines[i])]

\* C12: however the stream is cut into chunks, the handler has been called
\* once for each newline-terminated line received, in order and with the key
\* and value of a delivery in one piece; the bytes after the last newline
\* are kept in data and not handed over.
C12_ChunkingInvisible ==
    /\ handled = Unsplit(Received)
    /\ Len(handled) = Cardinality({i \in 1..Len(Received) : Received[i] = "nl"})
    /\ \A i \in 1..Len(data) : data[i] # "nl"
    /\ Len(data) <= Len(Received)
    /\ data = SubSeq(Received, Len(Received) - Len(data) + 1, Len(Received))
    /\ (Len(data) < Len(Received) => Received[Len(Received) - Len(data)] = "nl")

\* A chunk has ended inside a line: its first bytes are kept, the newline
\* that ends it is still to come, and an earlier line has been handled.
C12_Witness ==
    /\ connection = "open"
    /\ handled # << >>
    /\ data # << >>
    /\ unread # << >>
    /\ unread[1] # "nl"
    /\ \E i \in 1..Len(unread) : unread[i] = "nl"

\* C13 as claimed: once the foreground has left the progress context of a
\* job whose monitor never accepted a connection, the monitor has been
\* cancelled by the foreground, or had ended in accept on its own before;
\* it is not scheduled, waiting in accept, or ended by the socket's closing.
C13_MonitorCancelledOnExit ==
    (fg = "left" /\ ~accepted /\ child # "none")
        => child \in {"killed", "failed_accept"}

\* C14: the way the encode step ends is the encoder's return code and
\* nothing else: return on 0, sys.exit on any other, whatever became of the
\* monitor (accept, recv or the handler raising).
C14_OutcomeIsEncoderResult ==
    (fg = "left" /\ returncode # -1)
        => /\ outcome \in {"return", "sysexit"}
           /\ (outcome = "return") = (returncode = 0)

\* The handler raised on a malformed record and the step has returned.
C14_Witness ==
    /\ fg = "left"
    /\ child = "failed_handler"
    /\ returncode = 0
    /\ outcome = "return"

\* The step of _process_movie_file that removes the input directory.
RemovesInputDir == pc = "ladder" /\ pc' = "return" /\ delete /\ ~dry_run

\* C15 as claimed: in delete mode, when _process_movie_file removes the
\* input directory of a file, nothing is left in it or below it but the
\* working file about to be moved out, and no file queued in
\* files_to_process besides the one at hand lies in it.
C15_RemovedDirIsEmpty ==
    [][RemovesInputDir =>
          /\ \A q \in DOMAIN files :
                (q.loc = "in" /\ IsUnder(parent, q.dir, base_input))
                    => q = FromPath
          /\ \A i \in 1..Len(files_to_process) :
                IsUnder(parent, files_to_process[i].dir, base_input)
                    => files_to_process[i] = todo[current]]_vars

\* C16 as claimed: the survivor lacks the suffix exactly when no sibling of
\* the listing carries it, in whatever order the siblings are listed.
C16_UnsuffixedOnlyAsFallback ==
    master_file # NoFile => (EndsWithPMp4(master_file) <=> SomeSuffixed)

\* The place, counted from 0 among the audio streams, of the first stream
\* tagged eng, or 0 when none is.
AudioPosition(ls) ==
    LET eng == {i \in 1..Len(ls) : ls[i].lang = "eng"}
    IN  IF eng = {} THEN 0
        ELSE (CHOOSE i \in eng : \A j \in eng : i <= j) - 1

\* C17 as claimed: the track returned for a list of audio streams is the
\* place among the audio streams of the first one tagged eng, or of the
\* first one when none is, whatever the streams' indexes in the file.
C17_TrackIsAudioPosition ==
    (language # "none" /\ parsed) => track = AudioPosition(audio_streams)

\* The bucket a rung's output belongs in.
BucketOf(h) == IF h = 2160 THEN "2160p" ELSE "main"

\* C18: in delete mode, when _process_movie_file has returned, the output of
\* every rung encoded so far (for the file at hand and those before it; an
\* encoder failure would have ended the run) is in the output tree under its
\* folder, the 2160 output in the 2160p bucket and any lower one in main,
\* and is no longer in the input directory.
C18_RungOutputsFiled ==
    (pc = "return" /\ delete /\ ~dry_run) =>
        \A i \in 1..Len(calls) :
            /\ OutPath(BucketOf(calls[i].target), calls[i].dir,
                       Marked(calls[i].target)) \in DOMAIN files
            /\ files[OutPath(BucketOf(calls[i].target), calls[i].dir,
                             Marked(calls[i].target))] = "enc"
            /\ InPath(calls[i].dir, Marked(calls[i].target)) \notin DOMAIN files

\* A delete-mode ladder from 2160 has ended: the 2160 and 1080 outputs were
\* encoded and the file has been filed.
C18_Witness ==
    /\ pc = "return"
    /\ delete
    /\ ~dry_run
    /\ original_resolution = 2160
    /\ \E i, j \in 1..Len(calls) :
          /\ calls[i].target = 2160
          /\ calls[j].target = 1080
          /\ calls[i].dir = base_input
          /\ calls[j].dir = base_input
    /\ OutPath("2160p", base_input, Marked(2160)) \in DOMAIN files

\* The probe of the next queued file, which exists, gives no resolution.
ProbesNoResolution ==
    /\ pc = "next"
    /\ current < Len(todo)
    /\ InPath(todo[current + 1].dir, todo[current + 1].name) \in DOMAIN files
    /\ current' = current + 1
    /\ original_resolution' = -1

\* C19: a file the probe finds no resolution for (no video stream) is
\* skipped: _process_movie_file returns with no encoder started, no
\* statement given to _run, no file or output directory touched and no exit;
\* the next step takes the file off the queue and the run is at its next
\* file, still with nothing done for the skipped one.
C19_NoVideoStreamSkipped ==
    [][/\ ProbesNoResolution =>
             /\ pc' = "return"
             /\ files' = files
             /\ outdirs' = outdirs
             /\ calls' = calls
             /\ issued' = issued
             /\ spawned' \subseteq spawned \cup {"probe"}
             /\ exit_code' = exit_code
       /\ (pc = "return" /\ original_resolution = -1) =>
             /\ pc' = "next"
             /\ files_to_process' = RemoveFirst(files_to_process, todo[current])
             /\ files' = files
             /\ outdirs' = outdirs
             /\ calls' = calls
             /\ issued' = issued
             /\ exit_code' = -1]_vars

\* The first file of the queue was skipped (it is where it was and nothing
\* was encoded or given to _run) and the ladder of the second has begun.
C19_Witness ==
    /\ pc = "ladder"
    /\ current = 2
    /\ calls = << >>
    /\ issued = << >>
    /\ InPath(todo[1].dir, todo[1].name) \in DOMAIN files
    /\ Len(files_to_process) = Len(todo) - 1

\* A speed record is handled.
HandlesSpeed == nevents' = nevents + 1 /\ last_key' = "speed"

\* C20 as claimed: in a job that seeks, a speed record leaves the label
\* alone as long as the position has not been above 0, and sets it once the
\* position has been above 0; in a job that does not seek every speed
\* record sets it.
C20_SpeedLabelAfterSeek ==
    [][HandlesSpeed =>
          /\ (seek /\ ~moved) => bar_label' = bar_label
          /\ (seek /\ moved) => bar_label' \in {Pad7(v) : v \in SpeedValues}
          /\ ~seek => bar_label' \in {Pad7(v) : v \in SpeedValues}]_vars

\* C21: at every point of a run at most one encode step is in flight.  At
\* most one temporary directory and one listening socket exist, and they
\* exist exactly while the foreground is inside the body of one job's with
\* statement; the encoder runs only there, after that job's own endpoint was
\* made.  Before a job enters its context no endpoint exists, so the one it
\* makes is new and is gone when the job is over: no other rung or file can
\* use it.
C21_OneEncodeInFlight ==
    /\ tmpdirs \in {0, 1}
    /\ socks \in {0, 1}
    /\ (pc \in {"foreground", "waiting"}) = (tmpdirs = 1)
    /\ (pc \in {"foreground", "waiting"}) = (socks = 1)
    /\ (encoder = "running") = (pc = "waiting")
    /\ pc = "progress" => (tmpdirs = 0 /\ socks = 0 /\ encoder = "idle")

\* The encoder of a second encode step is running, with one endpoint.
C21_Witness ==
    /\ pc = "waiting"
    /\ encoder = "running"
    /\ Len(calls) = 2
    /\ tmpdirs = 1
    /\ socks = 1

\* C22: the encoder is never started with to_path equal to from_path.  The
\* first rung handed to _process_resolution is the probed resolution, the
\* encoder is started at a rung equal to the current resolution only for a
\* file that does not carry that marker, and at any lower rung it reads the
\* file marked with the current resolution and writes one marked with the
\* rung's.
C22_OutputIsNotInput ==
    /\ \A i \in 1..Len(calls) :
          /\ InPath(calls[i].dir, calls[i].src)
                 # InPath(calls[i].dir, Marked(calls[i].target))
          /\ calls[i].target <= calls[i].current_resolution
          /\ calls[i].target = calls[i].current_resolution
                 => calls[i].src.marker # calls[i].target
          /\ calls[i].target < calls[i].current_resolution
                 => calls[i].src = Marked(calls[i].current_resolution)
    /\ (pc \in {"ladder", "inspect", "progress", "foreground", "waiting",
                "relocate"} /\ Len(plan) >= 1)
           => plan[1] = original_resolution

\* A file marked 720 that probes at 1080 was encoded to 1080 and that output
\* then to 720, the name the file came with.
C22_Witness ==
    /\ Len(calls) = 2
    /\ calls[1].src = Marked(720)
    /\ calls[1].target = 1080
    /\ calls[2].src = Marked(1080)
    /\ calls[2].target = 720

\* The file at hand came without the marker of its probed resolution, and
\* its first rung is over (the working file is no longer the original).
UnmarkedOriginalEncoded ==
    /\ ~dry_run
    /\ current >= 1
    /\ original_resolution \in Heights
    /\ base_input = todo[current].dir
    /\ ~IsProcessed(todo[current].name, original_resolution)
    /\ source_file # todo[current].name

\* The original's content is at path p.
HoldsOriginal(p) == p \in DOMAIN files /\ files[p] = "src"

\* C23 as claimed: once the first rung of an unmarked original is over, the
\* original is in the orig bucket exactly when that rung was 2160; when it
\* was lower the original is in no bucket of the output tree, is gone from
\* the input directory in delete mode, and is still in the input directory
\* in no-delete mode.
C23_UnmarkedOriginalPlacement ==
    UnmarkedOriginalEncoded =>
        LET d == todo[current].dir
            name == todo[current].name
        IN  /\ HoldsOriginal(OutPath("orig", d, name))
                   = (original_resolution = 2160)
            /\ original_resolution < 2160 =>
                  /\ \A bucket \in {"main", "2160p", "orig"} :
                        ~HoldsOriginal(OutPath(bucket, d, name))
                  /\ delete => ~HoldsOriginal(InPath(d, name))
                  /\ ~delete => HoldsOriginal(InPath(d, name))


====
